---- MODULE Spec2Model ----
(***************************************************************************)
(* A model of v6-summary-py: the two-round federated summary.              *)
(*                                                                         *)
(*   partial_summary.py   summary_per_data_station  (round 1, per node)    *)
(*   partial_variance.py  variance_per_data_station (round 2, per node)    *)
(*   central.py           summary, _aggregate_partial_summaries,           *)
(*                        _add_sd_to_results        (the orchestrator)     *)
(*                                                                         *)
(* A data frame is a sequence of rows; a row maps column names to cells.   *)
(* A cell is <<>> (NaN / None) or <<v>>.  The statistics pandas computes   *)
(* are floats: they are modelled as exact rationals with NaN and the two   *)
(* infinities, so that sum / count and the squared deviations from a mean  *)
(* that is not an integer are computed without rounding.  The square root  *)
(* of the standard deviation is kept symbolic (kind "sqrt" of a radicand). *)
(***************************************************************************)
EXTENDS Integers, Sequences, FiniteSets, TLC

\* ------------------------------------------------------------------ bounds
\* Largest number of rows of the data set, all partitions together.
MaxRows == 3
\* Number of data stations (organizations) of the collaboration.
NumNodes == 2

\* --------------------------------------------------------------- constants
\* globals.py: the defaults of the two thresholds when the environment
\* variable is not set.
DEFAULT_MINIMUM_ROWS == 5
DEFAULT_PRIVACY_THRESHOLD == 5

\* ------------------------------------------------------------ small helpers
Range(s) == {s[i] : i \in 1..Len(s)}

Abs(n) == IF n < 0 THEN -n ELSE n

RECURSIVE Gcd(_, _)
Gcd(a, b) == IF b = 0 THEN a ELSE Gcd(b, a % b)

\* ------------------------------------------------------------------ floats
\* A float of pandas: a rational num/den in lowest terms (den > 0), NaN, or
\* an infinity (num is its sign).  "sqrt" is the square root of num/den.
NaN == [kind |-> "nan", num |-> 0, den |-> 1]
Inf(sign) == [kind |-> "inf", num |-> sign, den |-> 1]

Rat(n, d) ==
    LET g == Gcd(Abs(n), Abs(d))
        s == IF d < 0 THEN -1 ELSE 1
    IN [kind |-> "num", num |-> (s * n) \div g, den |-> (s * d) \div g]

F(n) == Rat(n, 1)

IsNum(x) == x.kind = "num"

\* x + y of two floats (NaN propagates; the model never adds infinities).
FAdd(x, y) ==
    IF IsNum(x) /\ IsNum(y)
    THEN Rat(x.num * y.den + y.num * x.den, x.den * y.den)
    ELSE NaN

FSub(x, y) ==
    IF IsNum(x) /\ IsNum(y)
    THEN Rat(x.num * y.den - y.num * x.den, x.den * y.den)
    ELSE NaN

FMul(x, y) ==
    IF IsNum(x) /\ IsNum(y) THEN Rat(x.num * y.num, x.den * y.den) ELSE NaN

\* x / y as numpy divides floats: no exception, 0/0 is NaN, v/0 is +-inf.
FDiv(x, y) ==
    IF ~(IsNum(x) /\ IsNum(y)) THEN NaN
    ELSE IF y.num = 0
         THEN IF x.num = 0 THEN NaN ELSE Inf(IF x.num > 0 THEN 1 ELSE -1)
         ELSE Rat(x.num * y.den, x.den * y.num)

\* x ** 0.5: NaN for NaN and for a negative number, inf for +inf.
FSqrt(x) ==
    IF x.kind = "inf" THEN (IF x.num > 0 THEN x ELSE NaN)
    ELSE IF ~IsNum(x) \/ x.num < 0 THEN NaN
    ELSE [kind |-> "sqrt", num |-> x.num, den |-> x.den]

FLess(x, y) == x.num * y.den < y.num * x.den

\* The min / max of two floats as Series.min / Series.max take it: NaN is
\* skipped, and the result is NaN only when both are.
FMin2(x, y) ==
    IF ~IsNum(x) THEN y ELSE IF ~IsNum(y) THEN x
    ELSE IF FLess(y, x) THEN y ELSE x

FMax2(x, y) ==
    IF ~IsNum(x) THEN y ELSE IF ~IsNum(y) THEN x
    ELSE IF FLess(x, y) THEN y ELSE x

\* ------------------------------------------------------------- data frames
\* The missing cell (NaN in a numeric column, None in an object column).
NA == <<>>

\* The columns of the data set and the pandas dtype of each: "num" is
\* int64 / float64, "obj" is object (strings).  test.py:29-41.
DfColumns == {"A", "B", "D", "E"}
Dtype == [A |-> "num", B |-> "num", D |-> "obj", E |-> "obj"]

\* The strings of an object column that pd.to_numeric can cast, and the
\* number each casts to.
DigitValue == [c \in {"1", "2"} |-> IF c = "1" THEN 1 ELSE 2]

\* df[col]: the cells of one column.
Column(df, col) == [i \in 1..Len(df) |-> df[i][col]]

\* Series.count(): the number of non-missing cells.
RECURSIVE Count(_)
Count(s) ==
    IF s = <<>> THEN 0
    ELSE (IF Head(s) = NA THEN 0 ELSE 1) + Count(Tail(s))

\* Series.isna().sum()
IsnaSum(s) == Len(s) - Count(s)

\* Series.sum(): the sum of the non-missing cells, 0 when there is none.
RECURSIVE SeriesSum(_)
SeriesSum(s) ==
    IF s = <<>> THEN F(0)
    ELSE IF Head(s) = NA THEN SeriesSum(Tail(s))
         ELSE FAdd(F(Head(s)[1]), SeriesSum(Tail(s)))

\* Series.min() / Series.max(): NaN when every cell is missing.
RECURSIVE SeriesMin(_)
SeriesMin(s) ==
    IF s = <<>> THEN NaN
    ELSE IF Head(s) = NA THEN SeriesMin(Tail(s))
         ELSE FMin2(F(Head(s)[1]), SeriesMin(Tail(s)))

RECURSIVE SeriesMax(_)
SeriesMax(s) ==
    IF s = <<>> THEN NaN
    ELSE IF Head(s) = NA THEN SeriesMax(Tail(s))
         ELSE FMax2(F(Head(s)[1]), SeriesMax(Tail(s)))

\* Series.value_counts(): value -> frequency over the non-missing cells.
ValueCounts(s) ==
    LET vals == {s[i][1] : i \in {j \in 1..Len(s) : s[j] # NA}}
    IN [v \in vals |-> Cardinality({i \in 1..Len(s) : s[i] = <<v>>})]

\* A faulty count of the complete rows: over the whole data frame, not the
\* view of the requested columns.
CompleteRowsOfWholeFrame(df, columns) ==
    Cardinality({i \in 1..Len(df) : \A c \in DfColumns : df[i][c] # NA})

\* len(df.dropna()) of the view df[columns].
CompleteRows(df, columns) ==
    Cardinality({i \in 1..Len(df) : \A c \in Range(columns) : df[i][c] # NA})

\* ------------------------------------------------------- the node's policy
\* The environment variables of a node (globals.py:7-13).  A threshold is
\* <<>> when the variable is not set and <<n>> when it is; a column list is
\* the string of the variable, a sequence of characters, empty when unset.
\* get_env_var(name, default): the value, or the default when it is not set.
get_env_var(value, default) == IF value = <<>> THEN default ELSE value[1]

\* The characters of a column name (the names of the model are one
\* character long).
Chars(col) == <<col>>

\* str.split(","): the pieces between the commas, nothing stripped.
RECURSIVE SplitComma(_)
SplitComma(s) ==
    IF \A i \in 1..Len(s) : s[i] # ","
    THEN <<s>>
    ELSE LET i == CHOOSE k \in 1..Len(s) :
                      s[k] = "," /\ \A j \in 1..(k - 1) : s[j] # ","
         IN <<SubSeq(s, 1, i - 1)>> \o SplitComma(SubSeq(s, i + 1, Len(s)))

\* ----------------------------------------------------------------- outcomes
\* What a local computation raises.
Error(exc, what, cols) ==
    [ok |-> FALSE, error |-> exc, what |-> what, cols |-> cols]

Passed == [ok |-> TRUE]

\* is_numeric of summary_per_data_station: None, or a list of booleans.
NoHint == [given |-> FALSE]
Hint(list) == [given |-> TRUE, list |-> list]

\* ------------------------------------------------- partial_summary.py: checks
\* A faulty report: only the first column that does not exist is named.
NonExistingColumnsFirstOnly(columns) ==
    LET absent == SelectSeq(columns, LAMBDA c : c \notin DfColumns)
    IN IF absent = <<>> THEN <<>> ELSE <<Head(absent)>>

\* [col for col in columns if col not in df.columns]
NonExistingColumns(columns) ==
    SelectSeq(columns, LAMBDA c : c \notin DfColumns)

\* A faulty threshold check: only the number of rows is looked at.
RowThresholdsViolatedRowsOnly(df, min_rows, columns) == Len(df) < min_rows

\* The first half of _check_privacy: the number of rows and the number of
\* non-null values of each column of the view are at least min_rows.
RowThresholdsViolated(df, min_rows, columns) ==
    \/ Len(df) < min_rows
    \/ \E c \in Range(columns) : Count(Column(df, c)) < min_rows

\* A faulty allow-list check: the name is looked for in the string of the
\* variable, not among the pieces between its commas.
NotAllowedSubstring(allowed_columns, requested_columns) ==
    /\ allowed_columns # <<>>
    /\ \E c \in Range(requested_columns) : c \notin Range(allowed_columns)

\* The second half of _check_privacy: the allow-list, when one is set, holds
\* every requested column.
NotAllowed(allowed_columns, requested_columns) ==
    /\ allowed_columns # <<>>
    /\ \E c \in Range(requested_columns) :
           Chars(c) \notin Range(SplitComma(allowed_columns))

\* ... and the deny-list, when one is set, holds none of them.
Disallowed(non_allowed_columns, requested_columns) ==
    /\ non_allowed_columns # <<>>
    /\ \E c \in Range(requested_columns) :
           Chars(c) \in Range(SplitComma(non_allowed_columns))

\* _check_privacy(df, min_rows, requested_columns); df is the view
\* df[columns], so df.columns are the requested columns.
CheckPrivacy(df, min_rows, requested_columns, env) ==
    IF RowThresholdsViolated(df, min_rows, requested_columns)
    THEN Error("PrivacyThresholdViolation", "min_rows", <<>>)
    ELSE IF NotAllowed(env.allowed_columns, requested_columns)
    THEN Error("ValueError", "not_allowed", <<>>)
    ELSE IF Disallowed(env.disallowed_columns, requested_columns)
    THEN Error("ValueError", "not_allowed", <<>>)
    ELSE Passed

\* pd.to_numeric of one object column succeeds when every string is digits.
Castable(df, col) ==
    \A i \in 1..Len(df) : df[i][col] = NA \/ df[i][col][1] \in DOMAIN DigitValue

\* df[col] = pd.to_numeric(df[col]) for the columns of cols.
CastColumns(df, cols) ==
    [i \in 1..Len(df) |->
        [c \in DOMAIN df[i] |->
            IF c \in cols /\ df[i][c] # NA
            THEN <<DigitValue[df[i][c][1]]>>
            ELSE df[i][c]]]

\* A faulty check: no cast is tried; a column hinted numeric and inferred
\* otherwise is an error at once.
CheckMatchWithoutCast(is_numeric, inferred_is_numeric, columns, df) ==
    IF Len(is_numeric) # Len(columns)
    THEN Error("ValueError", "length", <<>>)
    ELSE
    LET idx == 1..Len(columns)
        wrong ==
            SelectSeq(columns, LAMBDA c : \E i \in idx :
                columns[i] = c /\ is_numeric[i] # inferred_is_numeric[i])
    IN IF wrong # <<>> THEN Error("ValueError", "type_mismatch", wrong)
       ELSE [ok |-> TRUE, df |-> df]

\* A faulty check: a column hinted categorical and inferred numeric is let
\* through.
CheckMatchNarrowing(is_numeric, inferred_is_numeric, columns, df) ==
    IF Len(is_numeric) # Len(columns)
    THEN Error("ValueError", "length", <<>>)
    ELSE
    LET idx == 1..Len(columns)
        wrongly_numeric_columns ==
            SelectSeq(columns, LAMBDA c : \E i \in idx :
                columns[i] = c /\ is_numeric[i] /\ ~inferred_is_numeric[i])
        cast_fails == \E c \in Range(wrongly_numeric_columns) : ~Castable(df, c)
    IN IF cast_fails
       THEN Error("ValueError", "type_mismatch", wrongly_numeric_columns)
       ELSE [ok |-> TRUE, df |-> CastColumns(df, Range(wrongly_numeric_columns))]

\* _check_match_inferred_is_numeric: the data frame, with the columns that
\* are hinted numeric and inferred otherwise cast to numeric, or ValueError.
CheckMatchInferredIsNumeric(is_numeric, inferred_is_numeric, columns, df) ==
    IF Len(is_numeric) # Len(columns)
    THEN Error("ValueError", "length", <<>>)
    ELSE
    LET idx == 1..Len(columns)
        wrongly_numeric_columns ==
            SelectSeq(columns, LAMBDA c : \E i \in idx :
                columns[i] = c /\ is_numeric[i] /\ ~inferred_is_numeric[i])
        wrongly_non_numeric_columns ==
            SelectSeq(columns, LAMBDA c : \E i \in idx :
                columns[i] = c /\ ~is_numeric[i] /\ inferred_is_numeric[i])
        cast_fails == \E c \in Range(wrongly_numeric_columns) : ~Castable(df, c)
    IN IF cast_fails \/ wrongly_non_numeric_columns # <<>>
       THEN Error("ValueError", "type_mismatch",
                  (IF cast_fails THEN wrongly_numeric_columns ELSE <<>>)
                      \o wrongly_non_numeric_columns)
       ELSE [ok |-> TRUE, df |-> CastColumns(df, Range(wrongly_numeric_columns))]

\* ---------------------------------------------- partial_summary.py: summaries
\* _get_numeric_summary: describe() of one numeric column with the rows
\* missing and sum added and the rows 50%, mean and std dropped.
NumericSummaryOf(series) ==
    [count |-> F(Count(series)),
     min |-> SeriesMin(series),
     max |-> SeriesMax(series),
     missing |-> F(IsnaSum(series)),
     sum |-> SeriesSum(series)]

\* _get_numeric_summary(df_numeric).to_dict(): column -> statistics.
GetNumericSummary(df, numeric_columns) ==
    [c \in numeric_columns |-> NumericSummaryOf(Column(df, c))]

\* _get_categorical_summary(df_non_numeric).to_dict(): describe() with the
\* row missing added and the rows top, freq and unique dropped.
GetCategoricalSummary(df, non_numeric_columns) ==
    [c \in non_numeric_columns |->
        [count |-> F(Count(Column(df, c))),
         missing |-> F(IsnaSum(Column(df, c)))]]

\* counts[counts < privacy_threshold].sum()
NumLowCounts(counts, privacy_threshold) ==
    LET low == {v \in DOMAIN counts : counts[v] < privacy_threshold}
        RECURSIVE SumOver(_)
        SumOver(S) ==
            IF S = {} THEN 0
            ELSE LET v == CHOOSE x \in S : TRUE
                 IN counts[v] + SumOver(S \ {v})
    IN SumOver(low)

\* A faulty mask: only the values below the threshold are taken out.
MaskPrivacyPartial(counts, privacy_threshold) ==
    [v \in {x \in DOMAIN counts : counts[x] >= privacy_threshold} |-> counts[v]]

\* _mask_privacy: the value counts of a column, or {} when the counts that
\* are below the threshold sum to more than 0.
MaskPrivacy(counts, privacy_threshold) ==
    IF NumLowCounts(counts, privacy_threshold) > 0 THEN <<>> ELSE counts

\* _get_counts_unique_values(df_non_numeric): column -> masked value counts.
GetCountsUniqueValues(df, non_numeric_columns, env) ==
    LET privacy_threshold ==
            get_env_var(env.privacy_threshold, DEFAULT_PRIVACY_THRESHOLD)
    IN [c \in non_numeric_columns |->
            MaskPrivacy(ValueCounts(Column(df, c)), privacy_threshold)]

\* DataFrame.empty of df[cols]: no column or no row.
Empty(df, cols) == cols = {} \/ Len(df) = 0

\* summary_per_data_station(df, columns, is_numeric) under the node's policy:
\* the partial summary, or the error raised.
SummaryPerDataStation(df, columns, is_numeric, env) ==
    IF \E c \in Range(columns) : c \notin DfColumns
    THEN Error("InputError", "unknown_columns", NonExistingColumns(columns))
    ELSE
    LET min_length_df == get_env_var(env.minimum_rows, DEFAULT_MINIMUM_ROWS)
        privacy == CheckPrivacy(df, min_length_df, columns, env)
        inferred_is_numeric ==
            [i \in 1..Len(columns) |-> Dtype[columns[i]] = "num"]
        matched ==
            IF is_numeric.given
            THEN CheckMatchInferredIsNumeric(
                     is_numeric.list, inferred_is_numeric, columns, df)
            ELSE [ok |-> TRUE, df |-> df]
        flags == IF is_numeric.given THEN is_numeric.list
                 ELSE inferred_is_numeric
        numeric_columns ==
            {columns[i] : i \in {j \in 1..Len(columns) : flags[j]}}
        non_numeric_columns ==
            {columns[i] : i \in {j \in 1..Len(columns) : ~flags[j]}}
    IN IF ~privacy.ok THEN privacy
       ELSE IF ~matched.ok THEN matched
       ELSE
       [ok |-> TRUE,
        numeric |->
            IF Empty(matched.df, numeric_columns) THEN <<>>
            ELSE GetNumericSummary(matched.df, numeric_columns),
        categorical |->
            IF Empty(matched.df, non_numeric_columns) THEN <<>>
            ELSE GetCategoricalSummary(matched.df, non_numeric_columns),
        num_complete_rows_per_node |-> CompleteRows(matched.df, columns),
        counts_unique_values |->
            IF Empty(matched.df, non_numeric_columns) THEN <<>>
            ELSE GetCountsUniqueValues(matched.df, non_numeric_columns, env)]

\* ------------------------------------------------------- partial_variance.py
\* ((df[column] - mean) ** 2).sum(): the squared deviations of the
\* non-missing values from the given mean, NaN skipped by sum().
RECURSIVE SquaredDeviations(_, _)
SquaredDeviations(series, mean) ==
    IF series = <<>> THEN F(0)
    ELSE LET d == IF Head(series) = NA THEN NaN
                  ELSE FSub(F(Head(series)[1]), mean)
             sq == FMul(d, d)
             rest == SquaredDeviations(Tail(series), mean)
         IN IF IsNum(sq) THEN FAdd(sq, rest) ELSE rest

\* A faulty second round: the policy is not looked at again.
VarianceTrustingRound1(df, columns, means, env) ==
    IF \E c \in Range(columns) : c \notin DfColumns
    THEN Error("InputError", "unknown_columns", NonExistingColumns(columns))
    ELSE IF Len(columns) # Len(means)
    THEN Error("InputError", "length", <<>>)
    ELSE IF \E c \in Range(columns) : Dtype[c] # "num" /\ Len(df) > 0
    THEN Error("TypeError", "not_numeric", <<>>)
    ELSE [ok |-> TRUE,
          variances |->
              [c \in Range(columns) |->
                  LET idx == CHOOSE i \in 1..Len(columns) :
                                 columns[i] = c /\
                                 \A j \in (i + 1)..Len(columns) : columns[j] # c
                  IN SquaredDeviations(Column(df, c), means[idx])]]

\* variance_per_data_station(df, columns, means) under the node's policy:
\* column -> sum of squared deviations, or the error raised.  An object
\* column cannot be subtracted from (TypeError).
VariancePerDataStation(df, columns, means, env) ==
    IF \E c \in Range(columns) : c \notin DfColumns
    THEN Error("InputError", "unknown_columns", NonExistingColumns(columns))
    ELSE IF Len(columns) # Len(means)
    THEN Error("InputError", "length", <<>>)
    ELSE
    LET min_length_df == get_env_var(env.minimum_rows, DEFAULT_MINIMUM_ROWS)
        privacy == CheckPrivacy(df, min_length_df, columns, env)
    IN IF ~privacy.ok THEN privacy
       ELSE IF \E c \in Range(columns) : Dtype[c] # "num" /\ Len(df) > 0
       THEN Error("TypeError", "not_numeric", <<>>)
       ELSE [ok |-> TRUE,
             variances |->
                 [c \in Range(columns) |->
                     LET idx == CHOOSE i \in 1..Len(columns) :
                                    columns[i] = c /\
                                    \A j \in (i + 1)..Len(columns) : columns[j] # c
                     IN SquaredDeviations(Column(df, c), means[idx])]]

\* ------------------------------------------------- central.py: the reduction
\* The result of a node whose run failed, as wait_for_results hands it over.
None == [none |-> TRUE]

\* What a node sends back for the outcome of its local computation: the
\* dictionary the function returns, or None when it raised.
SummaryResult(outcome) ==
    IF outcome.ok
    THEN [numeric |-> outcome.numeric,
          categorical |-> outcome.categorical,
          num_complete_rows_per_node |-> outcome.num_complete_rows_per_node,
          counts_unique_values |-> outcome.counts_unique_values]
    ELSE None

VarianceResult(outcome) == IF outcome.ok THEN outcome.variances ELSE None

\* pd.DataFrame(result["counts_unique_values"]): one column per key, indexed
\* by the union of the values of all columns; a value a column does not
\* have is NaN in that column.
CountsFrame(d) ==
    LET index == UNION {DOMAIN d[c] : c \in DOMAIN d}
    IN [columns |-> DOMAIN d,
        index |-> index,
        at |-> [c \in DOMAIN d |->
                   [v \in index |->
                       IF v \in DOMAIN d[c] THEN F(d[c][v]) ELSE NaN]]]

\* DataFrame.empty
FrameEmpty(f) == f.columns = {} \/ f.index = {}

\* a.add(b, fill_value=0): over the union of the columns and of the index;
\* a cell missing on one side counts as 0, a cell missing on both is NaN.
FrameAdd(a, b) ==
    LET columns == a.columns \cup b.columns
        index == a.index \cup b.index
        Cell(f, c, v) ==
            IF c \in f.columns /\ v \in f.index THEN f.at[c][v] ELSE NaN
        Fill(x) == IF IsNum(x) THEN x ELSE F(0)
    IN [columns |-> columns,
        index |-> index,
        at |-> [c \in columns |->
                   [v \in index |->
                       LET x == Cell(a, c, v)
                           y == Cell(b, c, v)
                       IN IF ~IsNum(x) /\ ~IsNum(y) THEN NaN
                          ELSE FAdd(Fill(x), Fill(y))]]]

\* The row of `other` for column c, NaN where `other` has no such column
\* (pandas aligns the two rows on the column labels).
Aligned(other, c, stat) ==
    IF c \in DOMAIN other THEN other[c][stat] ELSE NaN

\* A faulty merge: the min of the aggregate is overwritten with the min of
\* the next result instead of the smaller of the two.
MergeNumericLastMin(agg, numeric_result) ==
    [c \in DOMAIN agg |->
        [count |-> FAdd(agg[c].count, Aligned(numeric_result, c, "count")),
         min |-> Aligned(numeric_result, c, "min"),
         max |-> FMax2(agg[c].max, Aligned(numeric_result, c, "max")),
         missing |-> FAdd(agg[c].missing, Aligned(numeric_result, c, "missing")),
         sum |-> FAdd(agg[c].sum, Aligned(numeric_result, c, "sum"))]]

\* central.py:146-166: the numeric statistics of the next result merged
\* into the aggregate, column by column of the aggregate.
MergeNumeric(agg, numeric_result) ==
    [c \in DOMAIN agg |->
        [count |-> FAdd(agg[c].count, Aligned(numeric_result, c, "count")),
         min |-> FMin2(agg[c].min, Aligned(numeric_result, c, "min")),
         max |-> FMax2(agg[c].max, Aligned(numeric_result, c, "max")),
         missing |-> FAdd(agg[c].missing, Aligned(numeric_result, c, "missing")),
         sum |-> FAdd(agg[c].sum, Aligned(numeric_result, c, "sum"))]]

\* A faulty merge: the missing values of the next result are not added, the
\* aggregate keeps those of the first result.
MergeCategoricalFirstMissing(agg, categorical_result) ==
    [c \in DOMAIN agg |->
        [count |-> FAdd(agg[c].count, Aligned(categorical_result, c, "count")),
         missing |-> agg[c].missing]]

\* central.py:169-176
MergeCategorical(agg, categorical_result) ==
    [c \in DOMAIN agg |->
        [count |-> FAdd(agg[c].count, Aligned(categorical_result, c, "count")),
         missing |->
             FAdd(agg[c].missing, Aligned(categorical_result, c, "missing"))]]

\* A faulty turn of the loop: the number of complete rows of the node is
\* put in front of the list instead of at its end.
MergeResultPrepending(agg, result) ==
    IF \/ DOMAIN result.numeric # {} /\ DOMAIN agg.numeric = {}
       \/ DOMAIN result.categorical # {} /\ DOMAIN agg.categorical = {}
    THEN Error("KeyError", "count", <<>>)
    ELSE
    LET unique_values_result == CountsFrame(result.counts_unique_values)
    IN [ok |-> TRUE,
        numeric |->
            IF DOMAIN result.numeric = {} THEN agg.numeric
            ELSE MergeNumeric(agg.numeric, result.numeric),
        categorical |->
            IF DOMAIN result.categorical = {} THEN agg.categorical
            ELSE MergeCategorical(agg.categorical, result.categorical),
        counts_unique_values |->
            IF FrameEmpty(unique_values_result) THEN agg.counts_unique_values
            ELSE FrameAdd(agg.counts_unique_values, unique_values_result),
        num_complete_rows_per_node |->
            <<result.num_complete_rows_per_node>>
                \o agg.num_complete_rows_per_node]

\* One turn of the loop of _aggregate_partial_summaries for a result that
\* is not the first.  agg.loc["count"] of a frame without rows is a KeyError.
MergeResult(agg, result) ==
    IF \/ DOMAIN result.numeric # {} /\ DOMAIN agg.numeric = {}
       \/ DOMAIN result.categorical # {} /\ DOMAIN agg.categorical = {}
    THEN Error("KeyError", "count", <<>>)
    ELSE
    LET unique_values_result == CountsFrame(result.counts_unique_values)
    IN [ok |-> TRUE,
        numeric |->
            IF DOMAIN result.numeric = {} THEN agg.numeric
            ELSE MergeNumeric(agg.numeric, result.numeric),
        categorical |->
            IF DOMAIN result.categorical = {} THEN agg.categorical
            ELSE MergeCategorical(agg.categorical, result.categorical),
        counts_unique_values |->
            IF FrameEmpty(unique_values_result) THEN agg.counts_unique_values
            ELSE FrameAdd(agg.counts_unique_values, unique_values_result),
        num_complete_rows_per_node |->
            Append(agg.num_complete_rows_per_node,
                   result.num_complete_rows_per_node)]

\* central.py:131-143: the first result is copied.
FirstResult(result) ==
    [ok |-> TRUE,
     numeric |-> result.numeric,
     categorical |-> result.categorical,
     counts_unique_values |-> CountsFrame(result.counts_unique_values),
     num_complete_rows_per_node |-> <<result.num_complete_rows_per_node>>]

\* A faulty loop: a None result is skipped instead of raising.
RECURSIVE AggregateFromSkippingNone(_, _, _)
AggregateFromSkippingNone(agg, results, i) ==
    IF ~agg.ok THEN agg
    ELSE IF i > Len(results)
    THEN (IF \A j \in 1..Len(results) : results[j] = None
          THEN Error("KeyError", "numeric", <<>>) ELSE agg)
    ELSE IF results[i] = None
    THEN AggregateFromSkippingNone(agg, results, i + 1)
    ELSE AggregateFromSkippingNone(
             IF \A j \in 1..(i - 1) : results[j] = None
             THEN FirstResult(results[i])
             ELSE MergeResult(agg, results[i]),
             results, i + 1)

\* The loop of _aggregate_partial_summaries from result i on; a None result
\* raises AlgorithmExecutionError when the loop comes to it.
RECURSIVE AggregateFrom(_, _, _)
AggregateFrom(agg, results, i) ==
    IF i > Len(results) \/ ~agg.ok THEN agg
    ELSE IF results[i] = None
    THEN Error("AlgorithmExecutionError", "invalid_result", <<>>)
    ELSE AggregateFrom(
             IF i = 1 THEN FirstResult(results[i])
             ELSE MergeResult(agg, results[i]),
             results, i + 1)

\* A faulty mean: the sum divided by the number of rows, missing included.
WithMeanOverRows(numeric) ==
    [c \in DOMAIN numeric |->
        [count |-> numeric[c].count,
         min |-> numeric[c].min,
         max |-> numeric[c].max,
         missing |-> numeric[c].missing,
         sum |-> numeric[c].sum,
         mean |-> FDiv(numeric[c].sum,
                       FAdd(numeric[c].count, numeric[c].missing))]]

\* central.py:190-195: the row mean = sum / count, when the frame is not
\* empty.
WithMean(numeric) ==
    [c \in DOMAIN numeric |->
        [count |-> numeric[c].count,
         min |-> numeric[c].min,
         max |-> numeric[c].max,
         missing |-> numeric[c].missing,
         sum |-> numeric[c].sum,
         mean |-> FDiv(numeric[c].sum, numeric[c].count)]]

\* _aggregate_partial_summaries(results): the aggregated summary, or the
\* error raised.  An empty list of results has no first result to read
\* (KeyError on aggregated_summary["numeric"]).
AggregatePartialSummaries(results) ==
    LET agg == AggregateFrom([ok |-> TRUE], results, 1)
    IN IF results = <<>> THEN Error("KeyError", "numeric", <<>>)
       ELSE IF ~agg.ok THEN agg
       ELSE [ok |-> TRUE,
             numeric |-> WithMean(agg.numeric),
             categorical |-> agg.categorical,
             counts_unique_values |-> agg.counts_unique_values,
             num_complete_rows_per_node |-> agg.num_complete_rows_per_node]

\* ------------------------------------------------ central.py: the second round
\* variance_df.sum() for one column: the sum of the nodes' contributions.
RECURSIVE VarianceSum(_, _)
VarianceSum(variance_results, c) ==
    IF variance_results = <<>> THEN F(0)
    ELSE LET rest == VarianceSum(Tail(variance_results), c)
             x == IF c \in DOMAIN Head(variance_results)
                  THEN Head(variance_results)[c] ELSE NaN
         IN IF IsNum(x) THEN FAdd(x, rest) ELSE rest

\* results["numeric"] with the row std added; std maps a column to its value.
WithStd(numeric, std) ==
    [c \in DOMAIN numeric |->
        [count |-> numeric[c].count,
         min |-> numeric[c].min,
         max |-> numeric[c].max,
         missing |-> numeric[c].missing,
         sum |-> numeric[c].sum,
         mean |-> numeric[c].mean,
         std |-> std[c]]]

\* A faulty std: the population standard deviation, divided by count.
StdOfPopulation(variance_sum, count) == FSqrt(FDiv(variance_sum, count))

\* central.py:228-230: (variance_sum_all_nodes / (count - 1)) ** 0.5
StdOf(variance_sum, count) == FSqrt(FDiv(variance_sum, FSub(count, F(1))))

\* _add_sd_to_results(results, variance_results, numerical_columns): the
\* outcomes it can have.  The function does not look for None among the
\* results: pd.DataFrame of a list that holds None beside dictionaries
\* raises (AttributeError or TypeError, by the place of the None); of a list
\* of None only it is one object column labelled 0, whose sum aligns with no
\* column of results["numeric"], which leaves std NaN, unless the pandas of
\* the build raises there too.
AddSdToResults(results, variance_results, numerical_columns) ==
    IF numerical_columns = <<>> THEN {results}
    ELSE IF \E i \in 1..Len(variance_results) : variance_results[i] = None
    THEN {Error("TypeError", "variance_results", <<>>)}
         \cup (IF \A i \in 1..Len(variance_results) : variance_results[i] = None
               THEN {[results EXCEPT
                        !.numeric = WithStd(results.numeric,
                                           [c \in DOMAIN results.numeric |-> NaN])]}
               ELSE {})
    ELSE {[results EXCEPT
             !.numeric =
                 WithStd(results.numeric,
                         [c \in DOMAIN results.numeric |->
                             StdOf(VarianceSum(variance_results, c),
                                   results.numeric[c].count)])]}

\* A faulty list of the numeric columns: the first one is left out.
NumericalColumnsButFirst(results, columns) ==
    LET numerical == SelectSeq(columns, LAMBDA c : c \in DOMAIN results.numeric)
    IN IF numerical = <<>> THEN <<>> ELSE Tail(numerical)

\* central.py:85-86: the numeric columns of the aggregate, in the order of
\* the request, and their means.
NumericalColumns(results, columns) ==
    SelectSeq(columns, LAMBDA c : c \in DOMAIN results.numeric)

Means(results, numerical_columns) ==
    [i \in 1..Len(numerical_columns) |->
        results.numeric[numerical_columns[i]].mean]

\* DataFrame.to_json() of a frame of value counts: every column is written
\* with every label of the index, null where the cell is NaN; so the keys
\* of the table of a column are the labels of the index.
TableKeys(frame, c) == IF c \in frame.columns THEN frame.index ELSE {}

\* central.py:106-111: what summary returns.
Output(results) ==
    [numeric |-> results.numeric,
     categorical |-> results.categorical,
     counts_unique_values |-> results.counts_unique_values,
     num_complete_rows_per_node |-> results.num_complete_rows_per_node]

\* ------------------------------------------------------------------- state
VARIABLES
    db,         \* organization -> the data frame of its node
    env,        \* organization -> the environment variables of its node
    request,    \* the arguments of the central function summary
    pc,         \* where the central function is
    task,       \* the subtask the central function waits for
    responses,  \* organization -> the result of its run of the subtask
    results,    \* the aggregated summary
    output,     \* what the central function returned
    raised,     \* the exception that ended the central function
    call,       \* a local function called directly: its arguments
    outcome     \* ... and what it returned or raised

vars == <<db, env, request, pc, task, responses, results, output, raised,
          call, outcome>>

NoTask == [method |-> "none"]
NoResults == [ok |-> FALSE]
NoOutput == [returned |-> FALSE]
NoCall == [method |-> "none"]
NoOutcome == [done |-> FALSE]

\* ------------------------------------------------------------------ inputs
\* The rows the partitions are drawn from.
RowPool ==
    << [A |-> <<1>>, B |-> <<2>>, D |-> <<"y">>, E |-> <<"1">>],
       [A |-> <<3>>, B |-> NA,    D |-> <<"y">>, E |-> <<"x">>],
       [A |-> NA,    B |-> <<1>>, D |-> <<"z">>, E |-> NA] >>

\* The partitions of a node: 1..MaxRows rows of the pool.  The order of the
\* rows of a data frame changes no statistic, so one order stands for all.
Partitions ==
    LET picks == UNION {[1..k -> 1..Len(RowPool)] : k \in 1..MaxRows}
        sorted == {p \in picks : \A i \in 1..(Len(p) - 1) : p[i] <= p[i + 1]}
    IN {[i \in 1..Len(p) |-> RowPool[p[i]]] : p \in sorted}

\* The data of a collaboration of n organizations: a partition for each, of
\* at most MaxRows rows together.
RECURSIVE TotalRows(_, _)
TotalRows(d, n) == IF n = 0 THEN 0 ELSE Len(d[n]) + TotalRows(d, n - 1)

DataSets(n) == {d \in [1..n -> Partitions] : TotalRows(d, n) <= MaxRows}

\* A policy with the two thresholds given and no column list.
Policy(minimum_rows, privacy_threshold) ==
    [minimum_rows |-> minimum_rows,
     privacy_threshold |-> privacy_threshold,
     allowed_columns |-> <<>>,
     disallowed_columns |-> <<>>]

\* The policies of the nodes of a central run.
CentralPolicies == {Policy(<<0>>, <<1>>), Policy(<<1>>, <<2>>)}

\* The arguments of a central run: columns and numeric_columns.
CentralRequests ==
    {[columns |-> c, numeric_columns |-> NoHint] :
        c \in {<<"A">>, <<"E">>, <<"A", "E">>, <<"B", "A">>}}
    \cup {[columns |-> <<"E">>, numeric_columns |-> Hint(<<"E">>)],
          [columns |-> <<"A">>, numeric_columns |-> Hint(<<"E">>)]}

\* --------------------------------------------------- central.py: summary
Organizations == DOMAIN db

\* The organizations whose result has come in.
Responded == DOMAIN responses

\* A faulty wait: it returns as soon as one organization has a result.
SomeResponded == Responded # {}

\* client.wait_for_results returns once every organization of the subtask
\* has a result; the order of the list it returns is the server's.
AllResponded == Responded = task.organizations

Orders(S) ==
    {order \in [1..Cardinality(S) -> S] :
        \A i, j \in 1..Cardinality(S) : i # j => order[i] # order[j]}

WaitForResults(order) == [i \in 1..Len(order) |-> responses[order[i]]]

\* responses with the result of organization o added.
WithResponse(o, result) ==
    [x \in DOMAIN responses \cup {o} |->
        IF x = o THEN result ELSE responses[x]]

\* central.py:42-78: the check of the arguments and the first subtask, for
\* every organization of the collaboration.
Start ==
    /\ pc = "Start"
    /\ IF /\ request.columns # <<>>
          /\ request.numeric_columns.given
          /\ request.numeric_columns.list # <<>>
          /\ ~(Range(request.numeric_columns.list) \subseteq Range(request.columns))
       THEN /\ pc' = "Failed"
            /\ raised' = "InputError"
            /\ UNCHANGED task
       ELSE /\ pc' = "AwaitingRound1"
            /\ task' = [method |-> "summary_per_data_station",
                        kwargs |-> [columns |-> request.columns,
                                    numeric_columns |-> request.numeric_columns],
                        organizations |-> Organizations]
            /\ UNCHANGED raised
    /\ UNCHANGED <<db, env, request, responses, results, output, call, outcome>>

\* A node runs summary_per_data_station for the first subtask.  The function
\* takes columns from the keyword arguments of the task; they hold no
\* is_numeric, which keeps its default None.
NodeSummary(o) ==
    /\ pc = "AwaitingRound1"
    /\ o \in task.organizations \ Responded
    /\ responses' = WithResponse(o,
           SummaryResult(SummaryPerDataStation(
               db[o], task.kwargs.columns, NoHint, env[o])))
    /\ UNCHANGED <<db, env, request, pc, task, results, output, raised,
                   call, outcome>>

\* A node runs variance_per_data_station for the second subtask.
NodeVariance(o) ==
    /\ pc = "AwaitingRound2"
    /\ o \in task.organizations \ Responded
    /\ responses' = WithResponse(o,
           VarianceResult(VariancePerDataStation(
               db[o], task.kwargs.columns, task.kwargs.means, env[o])))
    /\ UNCHANGED <<db, env, request, pc, task, results, output, raised,
                   call, outcome>>

\* The run of a node fails outside the function (the call is refused, the
\* container is killed): its result is None.
NodeFail(o) ==
    /\ pc \in {"AwaitingRound1", "AwaitingRound2"}
    /\ o \in task.organizations \ Responded
    /\ responses' = WithResponse(o, None)
    /\ UNCHANGED <<db, env, request, pc, task, results, output, raised,
                   call, outcome>>

\* central.py:78-100 and 106-111: the results of the first subtask are in;
\* they are aggregated, and either the second subtask is created or, with no
\* numeric column, the summary is returned.
AfterRound1 ==
    /\ pc = "AwaitingRound1"
    /\ AllResponded
    /\ \E order \in Orders(Responded) :
       LET aggregated == AggregatePartialSummaries(WaitForResults(order))
           numerical_columns == NumericalColumns(aggregated, request.columns)
       IN IF ~aggregated.ok
          THEN /\ pc' = "Failed"
               /\ raised' = aggregated.error
               /\ UNCHANGED <<task, responses, results, output>>
          ELSE IF numerical_columns # <<>>
          THEN /\ pc' = "AwaitingRound2"
               /\ results' = aggregated
               /\ task' = [method |-> "variance_per_data_station",
                           kwargs |-> [columns |-> numerical_columns,
                                       means |-> Means(aggregated,
                                                       numerical_columns)],
                           organizations |-> task.organizations]
               /\ responses' = <<>>
               /\ UNCHANGED <<output, raised>>
          ELSE /\ pc' = "Done"
               /\ results' = aggregated
               /\ output' = Output(aggregated)
               /\ UNCHANGED <<task, responses, raised>>
    /\ UNCHANGED <<db, env, request, call, outcome>>

\* central.py:100-111: the results of the second subtask are in; the
\* standard deviation is added and the summary is returned.
AfterRound2 ==
    /\ pc = "AwaitingRound2"
    /\ AllResponded
    /\ \E order \in Orders(Responded) :
       \E with_sd \in AddSdToResults(results, WaitForResults(order),
                                     task.kwargs.columns) :
          IF ~with_sd.ok
          THEN /\ pc' = "Failed"
               /\ raised' = with_sd.error
               /\ UNCHANGED <<results, output>>
          ELSE /\ pc' = "Done"
               /\ results' = with_sd
               /\ output' = Output(with_sd)
               /\ UNCHANGED raised
    /\ UNCHANGED <<db, env, request, task, responses, call, outcome>>

\* A central run: the collaboration has 1..NumNodes organizations, each
\* with a partition; the nodes share one policy.
Init ==
    /\ \E n \in 1..NumNodes : db \in DataSets(n)
    /\ \E p \in CentralPolicies : env = [o \in DOMAIN db |-> p]
    /\ request \in CentralRequests
    /\ pc = "Start"
    /\ task = NoTask
    /\ responses = <<>>
    /\ results = NoResults
    /\ output = NoOutput
    /\ raised = "none"
    /\ call = NoCall
    /\ outcome = NoOutcome

Next ==
    \/ Start
    \/ \E o \in Organizations : NodeSummary(o)
    \/ \E o \in Organizations : NodeVariance(o)
    \/ \E o \in Organizations : NodeFail(o)
    \/ AfterRound1
    \/ AfterRound2

Spec == Init /\ [][Next]_vars

\* ------------------------------------------- the node functions called alone
\* The partitions a node function is called on.
LocalPartitions == Partitions

\* The policies of a node: each threshold unset or set, the allow-list and
\* the deny-list unset or a comma-separated string of names ("AE" is one
\* name that is no column of the data).
LocalPolicies ==
    {[minimum_rows |-> m,
      privacy_threshold |-> t,
      allowed_columns |-> a,
      disallowed_columns |-> d] :
        m \in {<<>>, <<0>>, <<2>>},
        t \in {<<>>, <<1>>, <<2>>},
        a \in {<<>>, <<"A">>, <<"A", ",", "E">>, <<"A", "E">>},
        d \in {<<>>, <<"A">>, <<"B", ",", "E">>}}

\* The lists of columns a caller asks for; Y and Z are no columns of the data.
LocalColumns ==
    {<<>>, <<"A">>, <<"E">>, <<"A", "E">>, <<"B", "A">>, <<"A", "B", "E">>,
     <<"Z">>, <<"A", "Z">>, <<"Y", "Z">>, <<"Z", "A", "Y">>}

\* is_numeric for a list of columns: None, a flag for each column, or a list
\* of another length.
Hints(columns) ==
    {NoHint}
    \cup {Hint(h) : h \in [1..Len(columns) -> BOOLEAN]}
    \cup {Hint([i \in 1..(Len(columns) + 1) |-> TRUE])}

\* means for a list of columns: one mean for each, or a list of another
\* length.
MeansFor(columns) ==
    {[i \in 1..Len(columns) |-> m] : m \in {F(2), Rat(3, 2), NaN}}
    \cup {[i \in 1..(Len(columns) + 1) |-> F(2)]}

\* The data frame and the policy of the node a function is called on.
LocalDf == db[1]
LocalEnv == env[1]

\* summary_per_data_station(df, columns, is_numeric) is called.
CallSummary ==
    /\ pc = "Local"
    /\ call = NoCall
    /\ \E columns \in LocalColumns : \E is_numeric \in Hints(columns) :
          /\ call' = [method |-> "summary_per_data_station",
                      columns |-> columns,
                      is_numeric |-> is_numeric]
          /\ outcome' = [done |-> TRUE,
                         result |-> SummaryPerDataStation(
                                        LocalDf, columns, is_numeric, LocalEnv)]
    /\ UNCHANGED <<db, env, request, pc, task, responses, results, output,
                   raised>>

\* variance_per_data_station(df, columns, means) is called.
CallVariance ==
    /\ pc = "Local"
    /\ call = NoCall
    /\ \E columns \in LocalColumns : \E means \in MeansFor(columns) :
          /\ call' = [method |-> "variance_per_data_station",
                      columns |-> columns,
                      means |-> means]
          /\ outcome' = [done |-> TRUE,
                         result |-> VariancePerDataStation(
                                        LocalDf, columns, means, LocalEnv)]
    /\ UNCHANGED <<db, env, request, pc, task, responses, results, output,
                   raised>>

\* One node with a partition and a policy; no central function runs.
InitLocal ==
    /\ \E df \in LocalPartitions : db = [o \in {1} |-> df]
    /\ \E p \in LocalPolicies : env = [o \in {1} |-> p]
    /\ request = [columns |-> <<>>, numeric_columns |-> NoHint]
    /\ pc = "Local"
    /\ task = NoTask
    /\ responses = <<>>
    /\ results = NoResults
    /\ output = NoOutput
    /\ raised = "none"
    /\ call = NoCall
    /\ outcome = NoOutcome

NextLocal ==
    \/ CallSummary
    \/ CallVariance

SpecLocal == InitLocal /\ [][NextLocal]_vars

\* ======================================================================
\* Properties of the central run (Spec)
\* ======================================================================
\* The data set a single machine would hold: the partitions of the
\* organizations of orgs, one after the other.
RECURSIVE Concatenation(_)
Concatenation(orgs) ==
    IF orgs = {} THEN <<>>
    ELSE LET o == CHOOSE x \in orgs : \A y \in orgs : x <= y
         IN db[o] \o Concatenation(orgs \ {o})

\* One column of the whole data set.
WholeColumn(c) == Column(Concatenation(DOMAIN db), c)

\* The sum of the non-missing values of a series, and of their squares, as
\* integers.
RECURSIVE IntSum(_)
IntSum(s) ==
    IF s = <<>> THEN 0
    ELSE (IF Head(s) = NA THEN 0 ELSE Head(s)[1]) + IntSum(Tail(s))

RECURSIVE IntSumSq(_)
IntSumSq(s) ==
    IF s = <<>> THEN 0
    ELSE (IF Head(s) = NA THEN 0 ELSE Head(s)[1] * Head(s)[1])
         + IntSumSq(Tail(s))

\* The first round has been reduced: results holds the aggregate.
Reduced == pc \in {"AwaitingRound2", "Done"}

\* C1: with two partitions or more, the count, sum, min, max and missing of
\* every numeric column of the aggregate of the partial summaries are the
\* five statistics computed directly over the concatenation of the
\* partitions.
C1_MergeEqualsDirect ==
    (Reduced /\ Cardinality(DOMAIN db) >= 2) =>
        \A c \in DOMAIN results.numeric :
            LET direct == NumericSummaryOf(WholeColumn(c))
                merged == results.numeric[c]
            IN /\ merged.count = direct.count
               /\ merged.sum = direct.sum
               /\ merged.min = direct.min
               /\ merged.max = direct.max
               /\ merged.missing = direct.missing

\* Two partitions that both hold values of A and a missing value among
\* them have been merged.
C1_Witness ==
    /\ Reduced
    /\ Cardinality(DOMAIN db) = 2
    /\ "A" \in DOMAIN results.numeric
    /\ \A o \in DOMAIN db : Count(Column(db[o], "A")) > 0
    /\ results.numeric["A"].missing = F(1)
    /\ results.numeric["A"].min # results.numeric["A"].max

\* C2: for every partitioning over 1..k nodes the mean of a numeric column
\* after round 1 is the sum of the non-missing values of the whole data set
\* divided by their number (the float quotient 0/0, NaN, when there is
\* none); it is not the average of the nodes' means.
C2_GlobalMean ==
    Reduced =>
        \A c \in DOMAIN results.numeric :
            LET n == Count(WholeColumn(c))
            IN results.numeric[c].mean =
                   IF n > 0 THEN Rat(IntSum(WholeColumn(c)), n) ELSE NaN

\* A = 1 on one node and A = 3, 3 on the other: the mean is 7/3, where the
\* average of the two nodes' means is 2.
C2_Witness ==
    /\ Reduced
    /\ Cardinality(DOMAIN db) = 2
    /\ "A" \in DOMAIN results.numeric
    /\ \E o, q \in DOMAIN db :
          /\ IntSum(Column(db[o], "A")) = 1 /\ Count(Column(db[o], "A")) = 1
          /\ IntSum(Column(db[q], "A")) = 6 /\ Count(Column(db[q], "A")) = 2
    /\ results.numeric["A"].mean = Rat(7, 3)

\* C3: with k >= 2 nodes that all answered the second round, the std
\* returned for a numeric column with n >= 2 non-missing values in all is
\* the sample standard deviation of the whole data set, the square root of
\* (n * sum of squares - square of the sum) / (n * (n - 1)), which is the
\* sum of the squared deviations from the global mean divided by n - 1.
C3_SampleStd ==
    (/\ pc = "Done"
     /\ task.method = "variance_per_data_station"
     /\ Cardinality(DOMAIN db) >= 2
     /\ \A o \in DOMAIN responses : responses[o] # None) =>
        \A c \in DOMAIN output.numeric :
            LET s == WholeColumn(c)
                n == Count(s)
            IN n >= 2 =>
                 output.numeric[c].std =
                     FSqrt(Rat(n * IntSumSq(s) - IntSum(s) * IntSum(s),
                               n * (n - 1)))

\* A = 1 on one node and A = 3, 3 on the other: the std returned is the
\* square root of 4/3.
C3_Witness ==
    /\ pc = "Done"
    /\ task.method = "variance_per_data_station"
    /\ Cardinality(DOMAIN db) = 2
    /\ \A o \in DOMAIN responses : responses[o] # None
    /\ "A" \in DOMAIN output.numeric
    /\ \A o \in DOMAIN db : Count(Column(db[o], "A")) > 0
    /\ output.numeric["A"].std = FSqrt(Rat(4, 3))

C5_Barrier ==
    [][/\ (pc = "AwaitingRound1" /\ pc' # "AwaitingRound1") =>
              DOMAIN responses = task.organizations
       /\ (pc = "AwaitingRound1" /\ pc' = "AwaitingRound2") =>
              /\ task'.method = "variance_per_data_station"
              /\ task'.organizations = task.organizations
              /\ Len(results'.num_complete_rows_per_node) =
                     Cardinality(task.organizations)
       /\ (pc = "AwaitingRound2" /\ pc' # "AwaitingRound2") =>
              DOMAIN responses = task.organizations
       /\ (output = NoOutput /\ output' # NoOutput) =>
              DOMAIN responses = task.organizations]_vars

\* A run of two organizations went through both rounds.
C5_Witness ==
    /\ pc = "Done"
    /\ task.method = "variance_per_data_station"
    /\ Cardinality(task.organizations) = 2
    /\ DOMAIN responses = task.organizations
    /\ output # NoOutput

\* C6: after the reduction of the first round the run waits for a second
\* round exactly when the aggregate has a numeric column; with none, no
\* second subtask is created and the run is done, with an empty numeric
\* mapping in the summary.
C6_Round2IffNumeric ==
    [][(pc = "AwaitingRound1" /\ pc' \notin {"AwaitingRound1", "Failed"}) =>
           /\ pc' = "AwaitingRound2" <=> DOMAIN results'.numeric # {}
           /\ pc' = "AwaitingRound2" =>
                  task'.method = "variance_per_data_station"
           /\ DOMAIN results'.numeric = {} =>
                  /\ pc' = "Done"
                  /\ task' = task
                  /\ output' # NoOutput
                  /\ DOMAIN output'.numeric = {}]_vars

\* A request for the categorical column only ended after one round.
C6_Witness ==
    /\ pc = "Done"
    /\ task.method = "summary_per_data_station"
    /\ request.columns = <<"E">>
    /\ output # NoOutput
    /\ DOMAIN output.numeric = {}
    /\ DOMAIN output.categorical = {"E"}

\* ======================================================================
\* Properties of the node functions (SpecLocal)
\* ======================================================================
\* The requested columns that the data set does not have.
AbsentRequested == {c \in Range(call.columns) : c \notin DfColumns}

\* The call is well formed but for what the policy of the node refuses:
\* the columns exist, and a variance call has a mean for each.
WellFormedCall ==
    /\ outcome.done
    /\ AbsentRequested = {}
    /\ call.method = "variance_per_data_station" =>
           Len(call.columns) = Len(call.means)

\* The row threshold of the node.
MinimumRows ==
    IF LocalEnv.minimum_rows = <<>> THEN DEFAULT_MINIMUM_ROWS
    ELSE LocalEnv.minimum_rows[1]

\* The partition has fewer rows than the threshold, or a requested column
\* has fewer non-missing values.
BelowRowThreshold ==
    \/ Len(LocalDf) < MinimumRows
    \/ \E c \in Range(call.columns) :
           Cardinality({i \in 1..Len(LocalDf) : LocalDf[i][c] # NA}) < MinimumRows

\* name is one of the comma-separated names of the string list.
InList(name, list) ==
    \E i \in 1..Len(list) :
        /\ list[i] = name
        /\ i = 1 \/ list[i - 1] = ","
        /\ i = Len(list) \/ list[i + 1] = ","

\* The outcome is the error exc raised for the reason what.
Raised(exc, what) ==
    /\ ~outcome.result.ok
    /\ outcome.result.error = exc
    /\ outcome.result.what = what

\* C7: a request of the first or the second round that names a column the
\* data set does not have fails with InputError, whose list is exactly the
\* requested names that are absent, each once, however many existing
\* columns are requested with them; nothing is computed.
C7_UnknownColumnsListed ==
    (outcome.done /\ AbsentRequested # {}) =>
        /\ Raised("InputError", "unknown_columns")
        /\ Range(outcome.result.cols) = AbsentRequested
        /\ Len(outcome.result.cols) = Cardinality(AbsentRequested)

\* The variance of Z, A, Y was asked for: the error names Z and Y.
C7_Witness ==
    /\ outcome.done
    /\ call.method = "variance_per_data_station"
    /\ call.columns = <<"Z", "A", "Y">>
    /\ Raised("InputError", "unknown_columns")
    /\ outcome.result.cols = <<"Z", "Y">>

\* C8: for a request whose columns all exist, the node raises
\* PrivacyThresholdViolation exactly when the partition has fewer rows than
\* the row threshold or a requested column has fewer non-missing values
\* than it; then nothing is returned.
C8_RowThreshold ==
    WellFormedCall =>
        /\ Raised("PrivacyThresholdViolation", "min_rows") <=> BelowRowThreshold
        /\ BelowRowThreshold => ~outcome.result.ok

\* The partition has rows enough, a requested column has not values enough:
\* the summary is refused.
C8_Witness ==
    /\ WellFormedCall
    /\ call.method = "summary_per_data_station"
    /\ Len(LocalDf) >= MinimumRows
    /\ MinimumRows = 2
    /\ BelowRowThreshold
    /\ Raised("PrivacyThresholdViolation", "min_rows")

\* C9: for a request that passes the row thresholds, the node refuses it
\* (ValueError, column not allowed) exactly when an allow-list is set and a
\* requested column is not one of its names, or a deny-list is set and a
\* requested column is one of its names; each list is looked at whatever
\* the other says.
C9_ColumnPolicy ==
    (WellFormedCall /\ ~BelowRowThreshold) =>
        (Raised("ValueError", "not_allowed") <=>
            \/ /\ LocalEnv.allowed_columns # <<>>
               /\ \E c \in Range(call.columns) :
                      ~InList(c, LocalEnv.allowed_columns)
            \/ /\ LocalEnv.disallowed_columns # <<>>
               /\ \E c \in Range(call.columns) :
                      InList(c, LocalEnv.disallowed_columns))

\* A is on the allow-list and on the deny-list: the request for A is
\* refused.
C9_Witness ==
    /\ WellFormedCall
    /\ ~BelowRowThreshold
    /\ call.method = "summary_per_data_station"
    /\ call.columns = <<"A">>
    /\ InList("A", LocalEnv.allowed_columns)
    /\ InList("A", LocalEnv.disallowed_columns)
    /\ Raised("ValueError", "not_allowed")

\* The value threshold of the node.
PrivacyThreshold ==
    IF LocalEnv.privacy_threshold = <<>> THEN DEFAULT_PRIVACY_THRESHOLD
    ELSE LocalEnv.privacy_threshold[1]

\* The values of column c of the partition, and how often v is among them.
ValuesOf(c) ==
    {LocalDf[i][c][1] : i \in {j \in 1..Len(LocalDf) : LocalDf[j][c] # NA}}

Frequency(c, v) == Cardinality({i \in 1..Len(LocalDf) : LocalDf[i][c] = <<v>>})

\* C10: in a partial summary the value table of a categorical column is
\* empty when a value of the column occurs less often than the value
\* threshold, and else holds every value with its frequency: all or
\* nothing.
C10_AllOrNothing ==
    (/\ outcome.done
     /\ call.method = "summary_per_data_station"
     /\ outcome.result.ok) =>
        \A c \in DOMAIN outcome.result.counts_unique_values :
            LET table == outcome.result.counts_unique_values[c]
            IN IF \E v \in ValuesOf(c) : Frequency(c, v) < PrivacyThreshold
               THEN DOMAIN table = {}
               ELSE /\ DOMAIN table = ValuesOf(c)
                    /\ \A v \in ValuesOf(c) : table[v] = Frequency(c, v)

\* E has a value as frequent as the threshold and one that is rarer: its
\* table is empty.
C10_Witness ==
    /\ outcome.done
    /\ call.method = "summary_per_data_station"
    /\ outcome.result.ok
    /\ "E" \in DOMAIN outcome.result.counts_unique_values
    /\ \E v \in ValuesOf("E") : Frequency("E", v) >= PrivacyThreshold
    /\ \E v \in ValuesOf("E") : Frequency("E", v) < PrivacyThreshold
    /\ DOMAIN outcome.result.counts_unique_values["E"] = {}

\* A summary call came to the comparison of the hint with the inferred
\* types: the columns exist, the policy lets the request through, and the
\* hint has a flag for each column.
HintReached ==
    /\ outcome.done
    /\ call.method = "summary_per_data_station"
    /\ AbsentRequested = {}
    /\ call.is_numeric.given
    /\ Len(call.is_numeric.list) = Len(call.columns)
    /\ ~BelowRowThreshold
    /\ ~Raised("ValueError", "not_allowed")

\* The columns hinted numeric that are object columns in the data, and the
\* columns hinted categorical that are numeric in the data.
HintedNumericOnly ==
    {call.columns[i] : i \in {j \in 1..Len(call.columns) :
        call.is_numeric.list[j] /\ Dtype[call.columns[j]] # "num"}}

HintedCategoricalOnly ==
    {call.columns[i] : i \in {j \in 1..Len(call.columns) :
        ~call.is_numeric.list[j] /\ Dtype[call.columns[j]] = "num"}}

\* Every value of the columns cols is missing or a string of digits.
AllDigits(cols) ==
    \A c \in cols : \A i \in 1..Len(LocalDf) :
        LocalDf[i][c] = NA \/ LocalDf[i][c][1] \in {"1", "2"}

\* Column c of the partition with the digit strings read as numbers.
AsNumbers(c) ==
    [i \in 1..Len(LocalDf) |->
        IF LocalDf[i][c] = NA THEN NA
        ELSE <<IF LocalDf[i][c][1] = "1" THEN 1 ELSE 2>>]

\* C11: with a hint that says numeric for a column inferred otherwise, the
\* column is cast: when every value casts (and no column is hinted
\* categorical against the inference) the summary has the column under
\* numeric, with the statistics of the numbers, and not under categorical
\* nor among the value tables; when a value does not cast the request fails
\* with the type-mismatch ValueError that names the columns.
C11_HintCast ==
    (HintReached /\ HintedNumericOnly # {}) =>
        IF ~AllDigits(HintedNumericOnly)
        THEN /\ Raised("ValueError", "type_mismatch")
             /\ HintedNumericOnly \subseteq Range(outcome.result.cols)
        ELSE HintedCategoricalOnly = {} =>
             /\ outcome.result.ok
             /\ \A c \in HintedNumericOnly :
                   /\ c \in DOMAIN outcome.result.numeric
                   /\ outcome.result.numeric[c] = NumericSummaryOf(AsNumbers(c))
                   /\ c \notin DOMAIN outcome.result.categorical
                   /\ c \notin DOMAIN outcome.result.counts_unique_values

\* E holds "1" twice and a missing value and is hinted numeric: it is
\* summarised as the numbers 1, 1.
C11_Witness ==
    /\ HintReached
    /\ call.columns = <<"A", "E">>
    /\ call.is_numeric.list = <<TRUE, TRUE>>
    /\ AllDigits({"E"})
    /\ outcome.result.ok
    /\ "E" \in DOMAIN outcome.result.numeric
    /\ outcome.result.numeric["E"].sum = F(2)
    /\ outcome.result.numeric["E"].missing = F(1)

\* C12: a hint that says categorical for a column inferred numeric makes
\* the request fail with the type-mismatch ValueError that names the
\* column, whatever the other flags of the hint are and whether or not the
\* casts of other columns succeed; no summary is returned.
C12_NoNarrowing ==
    (HintReached /\ HintedCategoricalOnly # {}) =>
        /\ Raised("ValueError", "type_mismatch")
        /\ HintedCategoricalOnly \subseteq Range(outcome.result.cols)

\* A is hinted categorical and E, whose values all cast, numeric: the
\* request fails and names A only.
C12_Witness ==
    /\ HintReached
    /\ call.columns = <<"A", "E">>
    /\ call.is_numeric.list = <<FALSE, TRUE>>
    /\ AllDigits({"E"})
    /\ Raised("ValueError", "type_mismatch")
    /\ outcome.result.cols = <<"A">>

\* ======================================================================
\* The hint of a central run (Spec)
\* ======================================================================
\* The column E of the whole data set with its digit strings read as
\* numbers.
WholeAsNumbers ==
    [i \in 1..Len(WholeColumn("E")) |->
        IF WholeColumn("E")[i] = NA THEN NA
        ELSE <<IF WholeColumn("E")[i][1] = "1" THEN 1 ELSE 2>>]

\* The central function was asked for E, hinted numeric, on data whose
\* values of E are all digit strings or missing, with a digit string at
\* every node.
HintedDigitRun ==
    /\ request.columns = <<"E">>
    /\ request.numeric_columns = Hint(<<"E">>)
    /\ \A o \in DOMAIN db : Count(Column(db[o], "E")) > 0
    /\ \A i \in 1..Len(WholeColumn("E")) :
           WholeColumn("E")[i] = NA \/ WholeColumn("E")[i][1] \in {"1", "2"}

\* C13: a central run for a column of digit strings that is hinted numeric,
\* once it has returned, reports the column under numeric with the count,
\* min, max, missing and sum of the numbers, nothing under categorical and
\* no value table, and one number of complete rows for each node.
C13_HintReachesNodes ==
    (HintedDigitRun /\ pc = "Done") =>
        /\ DOMAIN output.numeric = {"E"}
        /\ LET direct == NumericSummaryOf(WholeAsNumbers)
               reported == output.numeric["E"]
           IN /\ reported.count = direct.count
              /\ reported.min = direct.min
              /\ reported.max = direct.max
              /\ reported.missing = direct.missing
              /\ reported.sum = direct.sum
        /\ DOMAIN output.categorical = {}
        /\ FrameEmpty(output.counts_unique_values)
        /\ Len(output.num_complete_rows_per_node) = Cardinality(DOMAIN db)

\* ------------------------------------ a central run with a changing policy
\* The policies the administrator of a node can change its policy to: a
\* higher row threshold, a deny-list, an allow-list.
ChangedPolicies(policy) ==
    {[policy EXCEPT !.minimum_rows = <<2>>],
     [policy EXCEPT !.disallowed_columns = <<"A">>],
     [policy EXCEPT !.allowed_columns = <<"B">>]}

\* The administrator of node o sets other environment variables while the
\* node has not yet run the subtask; get_env_var reads them when it runs.
\* One change is made in a run.
ChangePolicy(o) ==
    /\ pc \in {"AwaitingRound1", "AwaitingRound2"}
    /\ o \in task.organizations \ Responded
    /\ \A q \in DOMAIN env : env[q] \in CentralPolicies
    /\ \E p \in ChangedPolicies(env[o]) : env' = [env EXCEPT ![o] = p]
    /\ UNCHANGED <<db, request, pc, task, responses, results, output, raised,
                   call, outcome>>

\* The requests of these runs: numeric columns, no hint.
PolicyRequests ==
    {[columns |-> c, numeric_columns |-> NoHint] :
        c \in {<<"A">>, <<"B", "A">>}}

InitPolicy ==
    /\ \E n \in 1..NumNodes : db \in DataSets(n)
    /\ \E p \in CentralPolicies : env = [o \in DOMAIN db |-> p]
    /\ request \in PolicyRequests
    /\ pc = "Start"
    /\ task = NoTask
    /\ responses = <<>>
    /\ results = NoResults
    /\ output = NoOutput
    /\ raised = "none"
    /\ call = NoCall
    /\ outcome = NoOutcome

NextPolicy ==
    \/ Start
    \/ \E o \in Organizations : NodeSummary(o)
    \/ \E o \in Organizations : NodeVariance(o)
    \/ \E o \in Organizations : ChangePolicy(o)
    \/ AfterRound1
    \/ AfterRound2

SpecPolicy == InitPolicy /\ [][NextPolicy]_vars

\* The partition df and the columns asked for comply with policy: rows and
\* values enough, every column on the allow-list if there is one, none on
\* the deny-list.
Complies(df, policy, columns) ==
    LET m == IF policy.minimum_rows = <<>> THEN DEFAULT_MINIMUM_ROWS
             ELSE policy.minimum_rows[1]
    IN /\ Len(df) >= m
       /\ \A c \in Range(columns) :
              Cardinality({i \in 1..Len(df) : df[i][c] # NA}) >= m
       /\ policy.allowed_columns # <<>> =>
              \A c \in Range(columns) : InList(c, policy.allowed_columns)
       /\ policy.disallowed_columns # <<>> =>
              \A c \in Range(columns) : ~InList(c, policy.disallowed_columns)

\* C14: a node's computation of either round fails exactly when its data
\* and the requested columns do not comply with the policy the node has
\* when it runs that computation; so a policy changed after the first round
\* makes the second computation fail where the first succeeded.
C14_PolicyReadPerRequest ==
    [][\A o \in DOMAIN db :
          (/\ pc \in {"AwaitingRound1", "AwaitingRound2"}
           /\ o \notin DOMAIN responses
           /\ o \in DOMAIN responses') =>
              (responses'[o] = None <=>
                  ~Complies(db[o], env[o], task.kwargs.columns))]_vars

\* The first round was reduced with a summary of every node, the policy of
\* a node was changed since, and its second computation failed.
C14_Witness ==
    /\ pc = "AwaitingRound2"
    /\ results # NoResults
    /\ \E o \in DOMAIN responses :
          /\ responses[o] = None
          /\ env[o] \notin CentralPolicies
          /\ \E p \in CentralPolicies :
                Complies(db[o], p, request.columns)

\* ======================================================================
\* The reduction of the first round, field by field (Spec)
\* ======================================================================
\* The first round is reduced in this step.
Round1Reduced ==
    /\ pc = "AwaitingRound1"
    /\ pc' \in {"AwaitingRound2", "Done"}

\* C15: the aggregate of the N responses of the first round has N numbers
\* of complete rows; for every order of arrival that gives this aggregate,
\* the i-th number is that of the i-th response: the numbers of the nodes
\* are neither added up nor reordered.
C15_CompleteRowsPerNode ==
    [][Round1Reduced =>
          /\ Len(results'.num_complete_rows_per_node) =
                 Cardinality(DOMAIN responses)
          /\ \E order \in Orders(DOMAIN responses) :
                 AggregatePartialSummaries(WaitForResults(order)) = results'
          /\ \A order \in Orders(DOMAIN responses) :
                 AggregatePartialSummaries(WaitForResults(order)) = results' =>
                     results'.num_complete_rows_per_node =
                         [i \in 1..Len(order) |->
                             responses[order[i]].num_complete_rows_per_node]]_vars

\* Two nodes with 1 and 2 complete rows: the aggregate lists them, 1 and 2
\* or 2 and 1.
C15_Witness ==
    /\ Reduced
    /\ Cardinality(DOMAIN db) = 2
    /\ Len(results.num_complete_rows_per_node) = 2
    /\ {results.num_complete_rows_per_node[1],
        results.num_complete_rows_per_node[2]} = {1, 2}
    /\ \E o, q \in DOMAIN db : Len(db[o]) = 1 /\ Len(db[q]) = 2

\* ----------------------------------------- central runs for categorical columns
\* The requests of these runs: one or two categorical columns, no hint.
TableRequests ==
    {[columns |-> c, numeric_columns |-> NoHint] :
        c \in {<<"E">>, <<"D", "E">>}}

InitTables ==
    /\ \E n \in 1..NumNodes : db \in DataSets(n)
    /\ \E p \in CentralPolicies : env = [o \in DOMAIN db |-> p]
    /\ request \in TableRequests
    /\ pc = "Start"
    /\ task = NoTask
    /\ responses = <<>>
    /\ results = NoResults
    /\ output = NoOutput
    /\ raised = "none"
    /\ call = NoCall
    /\ outcome = NoOutcome

\* With no numeric column there is no second round.
NextTables ==
    \/ Start
    \/ \E o \in Organizations : NodeSummary(o)
    \/ AfterRound1

SpecTables == InitTables /\ [][NextTables]_vars

\* The keys the nodes reported for column c, and the sum of the counts the
\* nodes of orgs reported for key k of column c.
ReportedKeys(c) ==
    UNION {DOMAIN responses[o].counts_unique_values[c] : o \in DOMAIN responses}

RECURSIVE ReportedCount(_, _, _)
ReportedCount(c, k, orgs) ==
    IF orgs = {} THEN 0
    ELSE LET o == CHOOSE x \in orgs : TRUE
             table == responses[o].counts_unique_values[c]
         IN (IF k \in DOMAIN table THEN table[k] ELSE 0)
            + ReportedCount(c, k, orgs \ {o})

\* A run for categorical columns has returned; responses are those of the
\* first round.
TablesReturned ==
    /\ pc = "Done"
    /\ task.method = "summary_per_data_station"
    /\ output # NoOutput

\* C16: in the summary returned, the value table of a categorical column
\* has exactly the keys the nodes reported for that column, each with the
\* sum of the counts reported for it; a node that did not report a key, or
\* that masked the column, adds nothing.
C16_ValueTableUnion ==
    TablesReturned =>
        \A c \in output.counts_unique_values.columns :
            /\ TableKeys(output.counts_unique_values, c) = ReportedKeys(c)
            /\ \A k \in ReportedKeys(c) :
                   output.counts_unique_values.at[c][k] =
                       F(ReportedCount(c, k, DOMAIN responses))

\* What does hold of the value tables returned: the keys of a column whose
\* count is a number are the keys the nodes reported for it, each with the
\* sum of the counts reported; the other labels of the index (keys of other
\* columns) are there with NaN.
ReportedCountsSummed ==
    TablesReturned =>
        \A c \in output.counts_unique_values.columns :
            /\ {k \in output.counts_unique_values.index :
                    IsNum(output.counts_unique_values.at[c][k])}
                   = ReportedKeys(c)
            /\ \A k \in ReportedKeys(c) :
                   output.counts_unique_values.at[c][k] =
                       F(ReportedCount(c, k, DOMAIN responses))

\* ======================================================================
\* Columns that were not asked for (SpecLocal)
\* ======================================================================
\* Partitions that agree with df on the columns asked for and differ from
\* it in the others only: the other cells all missing, all with another
\* value, or so in the first row only.
Variants(df, columns) ==
    LET Other(c) == IF Dtype[c] = "num" THEN <<9>> ELSE <<"q">>
        Keep(i, c) == c \in Range(columns)
    IN {[i \in 1..Len(df) |->
            [c \in DfColumns |-> IF Keep(i, c) THEN df[i][c] ELSE NA]],
        [i \in 1..Len(df) |->
            [c \in DfColumns |-> IF Keep(i, c) THEN df[i][c] ELSE Other(c)]],
        [i \in 1..Len(df) |->
            [c \in DfColumns |->
                IF Keep(i, c) THEN df[i][c]
                ELSE IF i = 1 THEN Other(c) ELSE NA]]}

\* The outcome of the call of the state on another partition.
SameCallOn(df) ==
    IF call.method = "summary_per_data_station"
    THEN SummaryPerDataStation(df, call.columns, call.is_numeric, LocalEnv)
    ELSE VariancePerDataStation(df, call.columns, call.means, LocalEnv)

\* C17: a partition that agrees with the partition of the node on every
\* requested column gives the same outcome of the summary and of the
\* variance computation, result or error: the columns not asked for do
\* not count in the row threshold, the statistics, the value tables or the
\* complete rows.
C17_UnrequestedColumnsUnseen ==
    outcome.done =>
        \A other \in Variants(LocalDf, call.columns) :
            SameCallOn(other) = outcome.result

\* A summary of A was returned for a partition with a missing value in B;
\* every row counts as complete.
C17_Witness ==
    /\ outcome.done
    /\ call.method = "summary_per_data_station"
    /\ call.columns = <<"A">>
    /\ outcome.result.ok
    /\ \E i \in 1..Len(LocalDf) : LocalDf[i]["B"] = NA
    /\ outcome.result.num_complete_rows_per_node = Len(LocalDf)
    /\ \E other \in Variants(LocalDf, call.columns) : other # LocalDf

\* ------------------------------------ the switches of the shared statistics
\* globals.py:16-26: the environment variables that are to allow or forbid
\* the sharing of each kind of statistic.
EnvVarsAllowed ==
    {"ALLOW_MIN", "ALLOW_MAX", "ALLOW_COUNT", "ALLOW_SUM", "ALLOW_MISSING",
     "ALLOW_VARIANCE", "ALLOW_COUNTS_UNIQUE_VALUES", "ALLOW_NUM_COMPLETE_ROWS"}

\* The settings of the switches of a node: all on, or one of them off.
SwitchSettings ==
    {[name \in EnvVarsAllowed |-> TRUE]}
    \cup {[name \in EnvVarsAllowed |-> name # off] : off \in EnvVarsAllowed}

\* The policies of a node with switches: low thresholds, no column list.
SwitchPolicies ==
    {[minimum_rows |-> <<0>>,
      privacy_threshold |-> <<1>>,
      allowed_columns |-> <<>>,
      disallowed_columns |-> <<>>,
      switches |-> w] : w \in SwitchSettings}

\* One node with a partition and a policy with switches; the node
\* functions are called on it.
InitSwitches ==
    /\ \E df \in LocalPartitions : db = [o \in {1} |-> df]
    /\ \E p \in SwitchPolicies : env = [o \in {1} |-> p]
    /\ request = [columns |-> <<>>, numeric_columns |-> NoHint]
    /\ pc = "Local"
    /\ task = NoTask
    /\ responses = <<>>
    /\ results = NoResults
    /\ output = NoOutput
    /\ raised = "none"
    /\ call = NoCall
    /\ outcome = NoOutcome

NextSwitches ==
    \/ CallSummary
    \/ CallVariance

SpecSwitches == InitSwitches /\ [][NextSwitches]_vars

\* The switch name of the node is off.
SwitchOff(name) == ~LocalEnv.switches[name]

\* C18: with the variance switch of the node off, the variance computation
\* of a request that is otherwise served raises no error and returns no
\* contribution, but a refusal.
C18_VarianceRefused ==
    (/\ outcome.done
     /\ call.method = "variance_per_data_station"
     /\ SwitchOff("ALLOW_VARIANCE")
     /\ call.columns # <<>>
     /\ AbsentRequested = {}
     /\ Len(call.columns) = Len(call.means)
     /\ \A c \in Range(call.columns) : Dtype[c] = "num") =>
        /\ outcome.result.ok
        /\ "variances" \notin DOMAIN outcome.result

\* C19: in a partial summary every kind of statistic whose switch is off is
\* left out, whatever the other switches are: min, max, count, sum and
\* missing of the columns, the value tables, the number of complete rows.
C19_DisallowedStatisticsStripped ==
    (/\ outcome.done
     /\ call.method = "summary_per_data_station"
     /\ outcome.result.ok) =>
        LET r == outcome.result
            Kinds(c) == IF "numeric" \in DOMAIN r /\ c \in DOMAIN r.numeric
                        THEN DOMAIN r.numeric[c] ELSE {}
            CatKinds(c) ==
                IF "categorical" \in DOMAIN r /\ c \in DOMAIN r.categorical
                THEN DOMAIN r.categorical[c] ELSE {}
            Stripped(name, kind) ==
                SwitchOff(name) =>
                    \A c \in Range(call.columns) :
                        kind \notin Kinds(c) \cup CatKinds(c)
        IN /\ Stripped("ALLOW_MIN", "min")
           /\ Stripped("ALLOW_MAX", "max")
           /\ Stripped("ALLOW_COUNT", "count")
           /\ Stripped("ALLOW_SUM", "sum")
           /\ Stripped("ALLOW_MISSING", "missing")
           /\ SwitchOff("ALLOW_COUNTS_UNIQUE_VALUES") =>
                  \/ "counts_unique_values" \notin DOMAIN r
                  \/ DOMAIN r.counts_unique_values = {}
           /\ SwitchOff("ALLOW_NUM_COMPLETE_ROWS") =>
                  "num_complete_rows_per_node" \notin DOMAIN r

\* ======================================================================
\* The order of the responses of the first round (Spec)
\* ======================================================================
\* Every organization has answered the first subtask and no answer is None.
Round1Complete ==
    /\ pc = "AwaitingRound1"
    /\ AllResponded
    /\ \A o \in Responded : responses[o] # None

\* The numbers of complete rows of the responses, in the given order.
CompleteRowsIn(order) ==
    [i \in 1..Len(order) |-> responses[order[i]].num_complete_rows_per_node]

\* The aggregates of two orders are the same but for the list of complete
\* rows: both fail with the same error, or both have the same numeric
\* statistics (mean included), categorical statistics and value tables.
SameStatistics(a, b) ==
    /\ a.ok = b.ok
    /\ ~a.ok => a = b
    /\ a.ok => /\ a.numeric = b.numeric
               /\ a.categorical = b.categorical
               /\ a.counts_unique_values = b.counts_unique_values

Round2Over ==
    /\ pc \in {"Done", "Failed"}
    /\ task # NoTask
    /\ task.method = "variance_per_data_station"

\* C21: when the response of a node to the second subtask is None, the run
\* fails with the error of the aggregation (AlgorithmExecutionError, as for
\* the first round) and returns no summary: no standard deviation is
\* computed from the other responses or without any.
C21_NullVarianceFails ==
    (Round2Over /\ \E o \in DOMAIN responses : responses[o] = None) =>
        /\ pc = "Failed"
        /\ raised = "AlgorithmExecutionError"
        /\ output = NoOutput

\* The numeric columns of the aggregate that have a value somewhere, in the
\* order of the request.
ColumnsWithValues ==
    SelectSeq(request.columns,
              LAMBDA c : /\ c \in DOMAIN results.numeric
                         /\ IsNum(results.numeric[c].count)
                         /\ results.numeric[c].count.num > 0)

\* C22: the second subtask is sent the numeric columns of the aggregate
\* whose count is above 0, and the mean of each at the same place of the
\* list of means; a column whose count is 0 has no mean and is not sent.
C22_NoMeanNoRound2 ==
    (pc = "AwaitingRound2") =>
        /\ task.kwargs.columns = ColumnsWithValues
        /\ Len(task.kwargs.means) = Len(task.kwargs.columns)
        /\ \A i \in 1..Len(task.kwargs.columns) :
              /\ IsNum(task.kwargs.means[i])
              /\ task.kwargs.means[i] =
                     results.numeric[task.kwargs.columns[i]].mean

\* C23: in the summary returned after the second round, the standard
\* deviation of a numeric column whose count is 0 or 1 is undefined (NaN,
\* null in the JSON): it is not a number and not an infinity, and the run
\* does not end in an error of the division.
C23_StdUndefined ==
    (/\ Round2Over
     /\ \A o \in DOMAIN responses : responses[o] # None) =>
        /\ pc = "Done"
        /\ \A c \in DOMAIN output.numeric :
              (IsNum(output.numeric[c].count) /\ output.numeric[c].count.num <= 1)
                  => output.numeric[c].std = NaN

====
